---- MODULE Spec2Model ----
(***************************************************************************)
(* Position lifecycle of LiveTradingEngine (auto_trading/                  *)
(* live_trading_engine.py), the exit policy of RealtimeLearningUpdater,    *)
(* the grid-search replay and the strategy comparisons of                 *)
(* StrategyOptimizer, the exit simulation and the runs of Backtester, the  *)
(* crash files of RealtimeLearningUpdater, and the loops that drive the    *)
(* engine (main, LiveScheduler.run).                                       *)
(*                                                                         *)
(* Numbers.  Money and prices are integers (won).  Percentages are kept    *)
(* in quarter-percent units: Pct(8) is the code's 8.0.  The entry price    *)
(* of a position is the rational num/den, so the averaged price            *)
(* total_amount / total_quantity is exact; comparisons of profit_rate are  *)
(* cross-multiplied.  Floating-point rounding is not modelled.             *)
(* Time is counted in whole days: timedelta.days of two day stamps.        *)
(***************************************************************************)
EXTENDS Integers, Sequences, FiniteSets, TLC

VARIABLES
    now,            \* datetime.now(), in days
    positions,      \* self.positions: insertion-ordered dict, as a sequence of position records
    order_history,  \* self.order_history
    events,         \* what the most recent pass met: rejected opens, failed fills (those the run watches)
    closed,         \* per order_history record: the position it closed
    call,           \* the most recent direct call of an order method
    replay,         \* one run of the grid-search replay loop
    bt,             \* a Backtester: one run of _simulate_exit, or the runs of run_backtest
    opt,            \* one call of calculate_optimal_exit_points
    calib,          \* one run of the grid-search calibrator
    cmp,            \* one run of the capital-strategy comparisons of the optimizer
    sched,          \* the loop that drives the engine: wall clock, timers, pass in flight
    data            \* the crash files of RealtimeLearningUpdater and the training dataset

vars == <<now, positions, order_history, events, closed, call, replay, bt, opt, calib,
          cmp, sched, data>>

-----------------------------------------------------------------------------
(* Bounds of the model *)

MaxLongTrades == 2  \* positions opened over a run of several days (Spec)
MaxDaySells == 1    \* positions closed within one trading day (SpecDay)
MaxCalls == 1       \* direct calls of the order methods (SpecCalls)
MaxLen == 3         \* forward returns of one crash row (SpecReplay)
MaxBars == 2        \* candles after the entry candle (SpecBacktest)
MaxRows == 2        \* crash events in the history of one stock (SpecPolicy)
MaxEvents == 2      \* crash events in the calibrator's data (SpecCalib)
MaxRuns == 2        \* grid searches on one StrategyOptimizer (SpecCalib)
MaxBtRuns == 2      \* calls of run_backtest on one Backtester (SpecRuns)
MaxScans == 3       \* crashes saved by the scans of the updater (SpecData)
MaxBoots == 1       \* restarts of the engine process (SpecSched)

\* The days on which the engine runs.
Days == {0, 4, 5}

-----------------------------------------------------------------------------
(* LiveTradingEngine.__init__ *)

total_capital == 300000
max_per_trade == 100000
max_positions == 3

\* probability = 0.75 and the acceptance threshold 0.6, in percent
probability == 75
min_probability == 60

\* holding_days >= 5
max_holding_days == 5

Pct(x) == 4 * x

\* _get_watchlist
watchlist == <<"005930", "000660", "035420", "035720", "051910">>

Stocks == {watchlist[i] : i \in 1..Len(watchlist)}

\* _get_current_price returns None
NoPrice == 0

-----------------------------------------------------------------------------
(* Inputs *)

\* crash['Close'] of a detected crash; at 60000 the first tranche buys nothing
CrashCloses == {17000, 60000}

\* _get_current_price.  Against an entry at 17000 and the default exit points:
\* 15500 and 16000 are below the stop loss, 16400 is at the additional-buy
\* point, 19000 is above the target.  Against the averaged entry 16640:
\* 16000 is below the additional-buy point and above the stop loss.
Quotes == {NoPrice, 15500, 16000, 16400, 19000}

\* What calculate_optimal_exit_points finds for a stock: whether the crash
\* history is empty, whether any max return was computed, the 75th percentile
\* of the max returns and the mean lowest point (quarter-percent units).
Histories ==
    { [empty |-> TRUE,  no_returns |-> TRUE,  p75 |-> 0,        avg_lowest |-> 0],
      [empty |-> FALSE, no_returns |-> FALSE, p75 |-> Pct(25),  avg_lowest |-> Pct(-1)] }

DefaultHistory == [empty |-> TRUE, no_returns |-> TRUE, p75 |-> 0, avg_lowest |-> 0]

NoSignal == [crash |-> FALSE, Close |-> 0, hist |-> DefaultHistory, success |-> TRUE,
             sent |-> TRUE]

\* The engine over several days: one stock crashes.
LongEnv ==
    [stocks |-> {watchlist[1]},
     trades |-> MaxLongTrades,
     sells  |-> MaxLongTrades,
     closes |-> CrashCloses,
     hists  |-> Histories,
     fills  |-> BOOLEAN,
     quotes |-> Quotes,
     alerts |-> {TRUE},
     watch  |-> {"held", "full", "buy_failed", "add_failed", "sell_failed"}]

\* The engine within one trading day: four stocks crash.
DayEnv ==
    [stocks |-> {watchlist[i] : i \in 1..4},
     trades |-> max_positions + MaxDaySells,
     sells  |-> MaxDaySells,
     closes |-> {25000},
     hists  |-> {DefaultHistory},
     fills  |-> {TRUE},
     quotes |-> {NoPrice, 24000, 27500},
     alerts |-> {TRUE},
     watch  |-> {"full"}]

\* The engine whose orders are filled, followed until its positions are
\* closed: one stock crashes.
LiveEnv ==
    [stocks |-> {watchlist[1]},
     trades |-> MaxLongTrades,
     sells  |-> MaxLongTrades,
     closes |-> {17000},
     hists  |-> Histories,
     fills  |-> {TRUE},
     quotes |-> Quotes,
     alerts |-> {TRUE},
     watch  |-> {"priced", "no_price"}]

\* The engine under one of its drivers: one stock crashes.
SchedEnv ==
    [stocks |-> {watchlist[1]},
     trades |-> 1,
     sells  |-> 1,
     closes |-> {17000},
     hists  |-> {DefaultHistory},
     fills  |-> {TRUE},
     quotes |-> {NoPrice, 16400, 19000},
     alerts |-> {TRUE},
     watch  |-> {}]

\* The engine with a notification channel that may fail: two stocks crash.
NotifyEnv ==
    [stocks |-> {watchlist[1], watchlist[2]},
     trades |-> 2,
     sells  |-> 2,
     closes |-> {17000},
     hists  |-> {DefaultHistory},
     fills  |-> {TRUE},
     quotes |-> {NoPrice, 16400, 19000},
     alerts |-> BOOLEAN,
     watch  |-> {"alert_failed", "raised"}]

\* What one scan may find for a crashed stock.
Signals(env) ==
    { [crash |-> TRUE, Close |-> c, hist |-> h, success |-> ok, sent |-> sent] :
        c \in env.closes, h \in env.hists, ok \in env.fills, sent \in env.alerts }

\* The feeds of one scan: any of the stocks of env may have crashed.
Feeds(env) ==
    { [s \in Stocks |-> IF s \in env.stocks THEN d[s] ELSE NoSignal] :
        d \in [env.stocks -> Signals(env) \cup {NoSignal}] }

-----------------------------------------------------------------------------
(* Helpers on the positions dict *)

Codes(ps) == {ps[i].stock_code : i \in 1..Len(ps)}

IndexOf(ps, code) == CHOOSE i \in 1..Len(ps) : ps[i].stock_code = code

PosOf(ps, code) == ps[IndexOf(ps, code)]

\* del self.positions[stock_code]
Remove(ps, code) == SelectSeq(ps, LAMBDA p : p.stock_code # code)

\* position[...] = ... on the dict entry of code
Replace(ps, code, p) == [i \in 1..Len(ps) |-> IF ps[i].stock_code = code THEN p ELSE ps[i]]

\* self.positions[stock_code] = p
Put(ps, code, p) ==
    IF code \in Codes(ps) THEN Replace(ps, code, p) ELSE Append(ps, p)

Event(kind, code) == [kind |-> kind, stock_code |-> code]

NoCall == [op |-> "none", illegal |-> FALSE, raised |-> FALSE, changed |-> FALSE, n |-> 0]

-----------------------------------------------------------------------------
(* RealtimeLearningUpdater.calculate_optimal_exit_points *)

Max(a, b) == IF a >= b THEN a ELSE b
Min(a, b) == IF a <= b THEN a ELSE b

default_exit_points == [target_profit |-> Pct(8), stop_loss |-> Pct(-5), add_buy_point |-> Pct(-3)]

calculate_optimal_exit_points(h) ==
    IF h.empty THEN default_exit_points
    ELSE IF h.no_returns THEN default_exit_points
    ELSE [target_profit |-> Max(Pct(5), Min(h.p75, Pct(20))),
          stop_loss     |-> Pct(-5),
          add_buy_point |-> Max(Pct(-5), Min(h.avg_lowest, Pct(-2)))]

-----------------------------------------------------------------------------
(* profit_rate = (current_price - entry_price) / entry_price * 100 *)

\* profit_rate >= t and profit_rate <= t, t in quarter-percent units
ProfitRateGE(price, entry_price, t) ==
    (price * entry_price.den - entry_price.num) * 400 >= t * entry_price.num

ProfitRateLE(price, entry_price, t) ==
    (price * entry_price.den - entry_price.num) * 400 <= t * entry_price.num

\* (datetime.now() - position['entry_time']).days
holding_days(p, t) == t - p.entry_time

\* quantity * entry_price: the money spent on the position
Committed(p) == (p.quantity * p.entry_price.num) \div p.entry_price.den

RECURSIVE SumCommitted(_)
SumCommitted(ps) ==
    IF ps = <<>> THEN 0 ELSE Committed(Head(ps)) + SumCommitted(Tail(ps))

-----------------------------------------------------------------------------
(* The notifications.  sent is whether the call went through. *)

\* _send_telegram_alert: the body is one try block, `except Exception` prints
\* and returns
_send_telegram_alert(st, code, sent) ==
    IF sent THEN st
    ELSE [st EXCEPT !.events = st.events \cup {Event("alert_failed", code)}]

\* _send_telegram_message: no try block, what it raises leaves the caller
_send_telegram_message(st, code, sent) ==
    IF sent THEN st
    ELSE [st EXCEPT !.events = st.events \cup {Event("raised", code)}]

\* An exception is on its way out of the pass
Raised(st) == \E e \in st.events : e.kind = "raised"

-----------------------------------------------------------------------------
(* _execute_buy_order *)

\* A variant that rounds the number of shares up.
first_buy_quantity_rounded_up(price) == ((max_per_trade \div 2) + price - 1) \div price

\* A variant that spends the whole of max_per_trade on the first tranche.
first_buy_quantity_whole(price) == max_per_trade \div price

\* quantity = int(first_buy_amount / price), first_buy_amount = max_per_trade * 0.5
first_buy_quantity(price) == (max_per_trade \div 2) \div price

\* self.positions[stock_code] = {...}
NewPosition(code, price, quantity, pol, t) ==
    [stock_code       |-> code,
     entry_price      |-> [num |-> price, den |-> 1],
     quantity         |-> quantity,
     first_buy_amount |-> quantity * price,
     second_buy_done  |-> FALSE,
     entry_time       |-> t,
     target_profit    |-> pol.target_profit,
     stop_loss        |-> pol.stop_loss,
     add_buy_point    |-> pol.add_buy_point]

\* st is [positions, order_history, closed, events]; t is datetime.now();
\* success is order_result['success']
_execute_buy_order(st, code, price, pol, success, sent, t) ==
    LET quantity == first_buy_quantity(price) IN
    IF quantity = 0 THEN st
    ELSE IF success THEN
        _send_telegram_alert(
            [st EXCEPT !.positions = Put(st.positions, code,
                                         NewPosition(code, price, quantity, pol, t))],
            code, sent)
    ELSE [st EXCEPT !.events = st.events \cup {Event("buy_failed", code)}]

-----------------------------------------------------------------------------
(* scan_and_trade *)

\* A variant that lets one more position in.
positions_full_late(ps) == Len(ps) > max_positions

\* if len(self.positions) >= self.max_positions
positions_full(ps) == Len(ps) >= max_positions

\* A variant that opens a stock although it is held.
ScanSignal_reopening(st, code, sig, t) ==
    IF ~sig.crash THEN st
    ELSE IF positions_full(st.positions) THEN
        [st EXCEPT !.events = st.events \cup {Event("full", code)}]
    ELSE IF probability < min_probability THEN st
    ELSE _execute_buy_order(st, code, sig.Close,
                            calculate_optimal_exit_points(sig.hist), sig.success,
                            sig.sent, t)

\* A variant that does not look at the number of open positions.
ScanSignal_uncapped(st, code, sig, t) ==
    IF ~sig.crash THEN st
    ELSE IF code \in Codes(st.positions) THEN
        [st EXCEPT !.events = st.events \cup {Event("held", code)}]
    ELSE IF probability < min_probability THEN st
    ELSE _execute_buy_order(st, code, sig.Close,
                            calculate_optimal_exit_points(sig.hist), sig.success,
                            sig.sent, t)

\* The body of the loop for one stock of the watchlist.
ScanSignal(st, code, sig, t) ==
    IF ~sig.crash THEN st
    ELSE IF code \in Codes(st.positions) THEN
        [st EXCEPT !.events = st.events \cup {Event("held", code)}]
    ELSE IF positions_full(st.positions) THEN
        [st EXCEPT !.events = st.events \cup {Event("full", code)}]
    ELSE IF probability < min_probability THEN st
    ELSE _execute_buy_order(st, code, sig.Close,
                            calculate_optimal_exit_points(sig.hist), sig.success,
                            sig.sent, t)

RECURSIVE ScanLoop(_, _, _, _)
ScanLoop(st, i, feed, t) ==
    IF i > Len(watchlist) THEN st
    ELSE ScanLoop(ScanSignal(st, watchlist[i], feed[watchlist[i]], t), i + 1, feed, t)

Ledger == [positions |-> positions, order_history |-> order_history,
           closed |-> closed, events |-> {}]

\* What one call of scan_and_trade does to the engine.
scan_pass(env) ==
    \E feed \in Feeds(env) :
        LET st == ScanLoop(Ledger, 1, feed, now) IN
        /\ Len(st.order_history) + Len(st.positions) <= env.trades
        /\ positions' = st.positions
        /\ order_history' = st.order_history
        /\ closed' = st.closed
        /\ events' = {e \in st.events : e.kind \in env.watch}
        /\ call' = [NoCall EXCEPT !.n = call.n]

\* One call of scan_and_trade.
scan_and_trade(env) ==
    /\ scan_pass(env)
    /\ UNCHANGED <<now, replay, bt, opt, calib, cmp, sched, data>>

-----------------------------------------------------------------------------
(* _execute_sell_order *)

\* A variant that drops the position although the sell was not filled.
_execute_sell_order_dropping(st, code, position, price, reason, success, sent, t) ==
    IF success THEN
        [st EXCEPT
            !.order_history = Append(st.order_history,
                [date       |-> t,
                 stock_code |-> code,
                 action     |-> "SELL",
                 quantity   |-> position.quantity,
                 price      |-> price,
                 reason     |-> reason]),
            !.closed = Append(st.closed,
                [stock_code |-> code, entry_time |-> position.entry_time]),
            !.positions = Remove(st.positions, code)]
    ELSE [st EXCEPT !.events = st.events \cup {Event("sell_failed", code)},
                    !.positions = Remove(st.positions, code)]

\* self.order_history.append({...}); del self.positions[stock_code]
\* (profit_amount and profit_rate of the record are not kept)
_execute_sell_order(st, code, position, price, reason, success, sent, t) ==
    IF success THEN
        _send_telegram_alert(
            [st EXCEPT
                !.order_history = Append(st.order_history,
                    [date       |-> t,
                     stock_code |-> code,
                     action     |-> "SELL",
                     quantity   |-> position.quantity,
                     price      |-> price,
                     reason     |-> reason]),
                !.closed = Append(st.closed,
                    [stock_code |-> code, entry_time |-> position.entry_time]),
                !.positions = Remove(st.positions, code)],
            code, sent)
    ELSE [st EXCEPT !.events = st.events \cup {Event("sell_failed", code)}]

-----------------------------------------------------------------------------
(* _execute_additional_buy *)

\* quantity = int(second_buy_amount / price), second_buy_amount = max_per_trade * 0.5
second_buy_quantity(price) == (max_per_trade \div 2) \div price

\* A variant that takes the plain mean of the two prices.
Averaged_plain_mean(position, quantity, price) ==
    [position EXCEPT !.quantity = position.quantity + quantity,
                     !.entry_price = [num |-> position.entry_price.num
                                                + price * position.entry_price.den,
                                      den |-> 2 * position.entry_price.den],
                     !.second_buy_done = TRUE]

\* avg_price = (quantity * entry_price + quantity2 * price) / total_quantity
Averaged(position, quantity, price) ==
    LET total_quantity == position.quantity + quantity
        avg_price == [num |-> position.quantity * position.entry_price.num
                                + quantity * price * position.entry_price.den,
                      den |-> position.entry_price.den * total_quantity]
    IN [position EXCEPT !.quantity = total_quantity,
                        !.entry_price = avg_price,
                        !.second_buy_done = TRUE]

_execute_additional_buy(st, code, position, price, success, sent) ==
    LET quantity == second_buy_quantity(price) IN
    IF quantity = 0 THEN st
    ELSE IF success THEN
        _send_telegram_message(
            [st EXCEPT !.positions = Replace(st.positions, code,
                                             Averaged(position, quantity, price))],
            code, sent)
    ELSE [st EXCEPT !.events = st.events \cup {Event("add_failed", code)}]

-----------------------------------------------------------------------------
(* manage_positions *)

\* A variant whose additional buy does not look at second_buy_done.
Conditions_unguarded(position, price, t) ==
    [tp      |-> ProfitRateGE(price, position.entry_price, position.target_profit),
     sl      |-> ProfitRateLE(price, position.entry_price, position.stop_loss),
     add     |-> ProfitRateLE(price, position.entry_price, position.add_buy_point),
     expired |-> holding_days(position, t) >= max_holding_days]

\* The conditions the loop body evaluates for one position at one price.
Conditions(position, price, t) ==
    [tp      |-> ProfitRateGE(price, position.entry_price, position.target_profit),
     sl      |-> ProfitRateLE(price, position.entry_price, position.stop_loss),
     add     |-> /\ ~position.second_buy_done
                 /\ ProfitRateLE(price, position.entry_price, position.add_buy_point),
     expired |-> holding_days(position, t) >= max_holding_days]

\* A variant without the time stop.
Decide_no_time_stop(c) ==
    IF c.tp THEN "take_profit"
    ELSE IF c.sl THEN "stop_loss"
    ELSE IF c.add THEN "add_buy"
    ELSE "hold"

\* The branch the loop body takes: 1. take profit, 2. stop loss,
\* 3. additional buy, 4. time stop.  The sells pass the branch as reason.
Decide(c) ==
    IF c.tp THEN "take_profit"
    ELSE IF c.sl THEN "stop_loss"
    ELSE IF c.add THEN "add_buy"
    ELSE IF c.expired THEN "time_stop"
    ELSE "hold"

\* The body of the loop for one entry of list(self.positions.items()).
ManagePosition(st, position, price, success, sent, t) ==
    LET code == position.stock_code
        op == Decide(Conditions(position, price, t))
        priced == [st EXCEPT !.events = st.events \cup {Event("priced", code)}]
    IN  IF price = NoPrice
        THEN [st EXCEPT !.events = st.events \cup {Event("no_price", code)}]
        ELSE IF op = "hold" THEN priced
        ELSE IF op = "add_buy"
        THEN _execute_additional_buy(priced, code, position, price, success, sent)
        ELSE _execute_sell_order(priced, code, position, price, op, success, sent, t)

\* market[code] is the price _get_current_price returns for code, the
\* result of the order placed for it, if one is placed, and whether the
\* notification of that order goes through.  An exception ends the loop.
RECURSIVE ManageLoop(_, _, _, _, _)
ManageLoop(st, items, i, market, t) ==
    IF i > Len(items) \/ Raised(st) THEN st
    ELSE ManageLoop(
            ManagePosition(st, items[i], market[items[i].stock_code].price,
                           market[items[i].stock_code].success,
                           market[items[i].stock_code].sent, t),
            items, i + 1, market, t)

\* What one call of manage_positions does to the engine.
manage_pass(env) ==
    \E market \in [Codes(positions) ->
                        [price : env.quotes, success : env.fills, sent : env.alerts]] :
        LET st == ManageLoop(Ledger, positions, 1, market, now) IN
        /\ Len(st.order_history) <= env.sells
        /\ positions' = st.positions
        /\ order_history' = st.order_history
        /\ closed' = st.closed
        /\ events' = {e \in st.events : e.kind \in env.watch}
        /\ call' = [NoCall EXCEPT !.n = call.n]

\* One call of manage_positions.
manage_positions(env) ==
    /\ manage_pass(env)
    /\ UNCHANGED <<now, replay, bt, opt, calib, cmp, sched, data>>

-----------------------------------------------------------------------------
(* The clock *)

Tick ==
    /\ \E d \in Days : d > now
    /\ now' = CHOOSE d \in Days : d > now /\ \A e \in Days : e > now => d <= e
    /\ events' = {}
    /\ call' = [NoCall EXCEPT !.n = call.n]
    /\ UNCHANGED <<positions, order_history, closed, replay, bt, opt, calib, cmp, sched, data>>

-----------------------------------------------------------------------------

ReplayIdle == [pc |-> "idle"]
BtIdle == [pc |-> "idle"]
OptIdle == [pc |-> "idle"]
CalibIdle == [pc |-> "idle"]
CmpIdle == [pc |-> "idle"]
SchedIdle == [pc |-> "idle"]
DataIdle == [pc |-> "idle"]

Init ==
    /\ now = 0
    /\ positions = <<>>
    /\ order_history = <<>>
    /\ events = {}
    /\ closed = <<>>
    /\ call = NoCall
    /\ cmp = CmpIdle
    /\ sched = SchedIdle
    /\ data = DataIdle
    /\ opt = OptIdle
    /\ calib = CalibIdle
    /\ replay = ReplayIdle
    /\ bt = BtIdle

Next ==
    \/ scan_and_trade(LongEnv)
    \/ manage_positions(LongEnv)
    \/ Tick

Spec == Init /\ [][Next]_vars

NextDay ==
    \/ scan_and_trade(DayEnv)
    \/ manage_positions(DayEnv)

SpecDay == Init /\ [][NextDay]_vars

NextNotify ==
    \/ scan_and_trade(NotifyEnv)
    \/ manage_positions(NotifyEnv)
    \/ Tick

SpecNotify == Init /\ [][NextNotify]_vars

\* A scan early enough for the clock to reach the holding days of what it opens
scan_in_time ==
    /\ \E d \in Days : now + max_holding_days <= d
    /\ scan_and_trade(LiveEnv)

\* A pass of manage_positions in which _get_current_price returns a price
manage_priced == manage_positions([LiveEnv EXCEPT !.quotes = Quotes \ {NoPrice}])

NextLive ==
    \/ scan_in_time
    \/ manage_positions(LiveEnv)
    \/ Tick

\* main keeps running manage_positions, the clock advances, and the price
\* lookup succeeds again and again
SpecLive ==
    /\ Init
    /\ [][NextLive]_vars
    /\ WF_vars(Tick)
    /\ WF_vars(manage_priced)

-----------------------------------------------------------------------------
(* The two loops that drive the engine: main of live_trading_engine.py and    *)
(* LiveScheduler.run.  The wall clock is in seconds from the midnight of day  *)
(* 0, a Monday; now is its day.  A pass is in flight from the step that      *)
(* begins it to the step that ends it, and the clock moves meanwhile.        *)

DaySeconds == 24 * 60 * 60
TimeOfDay(h, m, s) == (h * 60 + m) * 60 + s

weekday(clock) == (clock \div DaySeconds) % 7
time_of_day(clock) == clock % DaySeconds

\* The instants at which the loops are observed
TimesOfDay == { TimeOfDay(8, 59, 59), TimeOfDay(9, 0, 0), TimeOfDay(9, 5, 0),
                TimeOfDay(15, 30, 0), TimeOfDay(15, 30, 1) }

\* On a Monday (day 0) and on the Saturday of the same week (day 5)
Instants == { d * DaySeconds + t : d \in {0, 5}, t \in TimesOfDay }
StartInstant == TimeOfDay(8, 59, 59)

Jobs == <<"scan", "manage">>

\* main: scan every 300 s, manage every 60 s;
\* setup_schedule: every(1).minutes scan, every(5).minutes manage
every(driver, job) ==
    IF driver = "main" THEN (IF job = "scan" THEN 300 ELSE 60)
    ELSE (IF job = "scan" THEN 60 ELSE 300)

\* A variant of is_trading_time without the weekend test.
is_trading_time_any_day(clock) ==
    /\ TimeOfDay(9, 0, 0) <= time_of_day(clock)
    /\ time_of_day(clock) <= TimeOfDay(15, 30, 0)

\* LiveScheduler.is_trading_time
is_trading_time(clock) ==
    /\ ~(weekday(clock) >= 5)
    /\ TimeOfDay(9, 0, 0) <= time_of_day(clock)
    /\ time_of_day(clock) <= TimeOfDay(15, 30, 0)

\* main: now.weekday() < 5 and (9 <= now.hour < 15 or (now.hour == 15 and now.minute < 30))
main_trading_time(clock) ==
    LET hour == time_of_day(clock) \div 3600
        minute == (time_of_day(clock) % 3600) \div 60
    IN  /\ weekday(clock) < 5
        /\ \/ (9 <= hour /\ hour < 15)
           \/ (hour = 15 /\ minute < 30)

\* The timers of a loop that starts at clock: main sets last_scan_time ten
\* minutes back and last_manage_time to now; every().do() counts from now
Timers(driver, clock) ==
    [scan   |-> IF driver = "main" THEN clock - 600 ELSE clock,
     manage |-> clock]

\* A variant that owes one run for every interval that has passed.
PendingRuns_queued(s, job) == (s.clock - s.last[job]) \div every(s.driver, job)

\* The runs of job that are due when the loop looks: (now - last).seconds >=
\* interval in main, next_run <= now in run_pending
PendingRuns(s, job) ==
    IF s.driver = "main"
    THEN (IF (s.clock - s.last[job]) % DaySeconds >= every(s.driver, job) /\ main_trading_time(s.clock)
          THEN 1 ELSE 0)
    ELSE (IF s.clock >= s.last[job] + every(s.driver, job) THEN 1 ELSE 0)

\* The jobs one turn of the loop runs, in their order: scan before manage in
\* main; sorted by next_run in run_pending
DueJobs(s) ==
    LET scans == [k \in 1..PendingRuns(s, "scan") |-> "scan"]
        manages == [k \in 1..PendingRuns(s, "manage") |-> "manage"]
    IN  IF s.driver = "scheduler"
           /\ s.last["manage"] + every(s.driver, "manage") < s.last["scan"] + every(s.driver, "scan")
        THEN manages \o scans
        ELSE scans \o manages

\* The loop calls a job and goes on when the job returns
LoopFree(s) == s.running = {}

\* datetime.now() moves on, to the next of the instants
sched_clock ==
    /\ sched.pc \in {"sleeping", "pending"}
    /\ \E t \in Instants :
        /\ t > sched.clock
        /\ \A u \in Instants : u > sched.clock => t <= u
        /\ sched' = [sched EXCEPT !.clock = t]
        /\ now' = t \div DaySeconds
    /\ UNCHANGED <<positions, order_history, events, closed, call, replay, bt, opt, calib,
                   cmp, data>>

\* One turn of the loop with something to run: now = datetime.now() and the
\* tests of main; schedule.run_pending()
run_pending ==
    /\ sched.pc = "sleeping"
    /\ LoopFree(sched)
    /\ DueJobs(sched) # <<>>
    /\ sched' = [sched EXCEPT !.pc = "pending", !.loop_now = sched.clock,
                              !.queue = DueJobs(sched)]
    /\ UNCHANGED <<now, positions, order_history, events, closed, call, replay, bt, opt,
                   calib, cmp, data>>

\* The next job of the turn is called.  job_scan_and_trade and
\* job_manage_positions return at once outside the trading time; main has
\* tested the time before.
begin_job ==
    /\ sched.pc = "pending"
    /\ sched.queue # <<>>
    /\ LoopFree(sched)
    /\ LET job == Head(sched.queue)
           trades == sched.driver = "main" \/ is_trading_time(sched.clock)
       IN  /\ sched' = [sched EXCEPT !.queue = Tail(@),
                                     !.running = @ \cup {job},
                                     !.started = sched.clock,
                                     !.returned_early = ~trades]
           /\ IF ~trades
              THEN UNCHANGED <<positions, order_history, events, closed, call>>
              ELSE IF job = "scan" THEN scan_pass(SchedEnv)
              ELSE manage_pass(SchedEnv)
    /\ UNCHANGED <<now, replay, bt, opt, calib, cmp, data>>

\* The job returns: last_scan_time = now, last_manage_time = now with the now
\* of the turn in main; the job is scheduled again from the current time in
\* run_pending
end_job ==
    /\ sched.pc = "pending"
    /\ \E job \in sched.running :
        LET running == sched.running \ {job} IN
        sched' = [sched EXCEPT
                    !.running = running,
                    !.last[job] = IF sched.driver = "main" THEN sched.loop_now
                                  ELSE sched.clock,
                    !.pc = IF sched.queue = <<>> /\ running = {} THEN "sleeping" ELSE @]
    /\ UNCHANGED <<now, positions, order_history, events, closed, call, replay, bt, opt,
                   calib, cmp, data>>

\* The process is stopped (KeyboardInterrupt) and started again:
\* LiveTradingEngine.__init__ and the timers of a new loop
restart ==
    /\ sched.pc \in {"sleeping", "pending"}
    /\ sched.boots < MaxBoots
    /\ sched' = [sched EXCEPT !.pc = "sleeping", !.boots = @ + 1,
                              !.last = Timers(sched.driver, sched.clock),
                              !.loop_now = sched.clock, !.queue = <<>>,
                              !.running = {}, !.returned_early = FALSE]
    /\ positions' = <<>>
    /\ order_history' = <<>>
    /\ closed' = <<>>
    /\ events' = {}
    /\ call' = NoCall
    /\ UNCHANGED <<now, replay, bt, opt, calib, cmp, data>>

InitSched ==
    /\ now = 0
    /\ positions = <<>>
    /\ order_history = <<>>
    /\ events = {}
    /\ closed = <<>>
    /\ call = NoCall
    /\ replay = ReplayIdle
    /\ bt = BtIdle
    /\ opt = OptIdle
    /\ calib = CalibIdle
    /\ cmp = CmpIdle
    /\ data = DataIdle
    /\ sched \in { [pc |-> "sleeping", driver |-> d, clock |-> StartInstant,
                    loop_now |-> StartInstant, last |-> Timers(d, StartInstant),
                    queue |-> <<>>, running |-> {}, started |-> StartInstant,
                    returned_early |-> FALSE, boots |-> 0] : d \in {"main", "scheduler"} }

NextSched ==
    \/ sched_clock
    \/ run_pending
    \/ begin_job
    \/ end_job
    \/ restart

SpecSched == InitSched /\ [][NextSched]_vars

-----------------------------------------------------------------------------
(* The order methods called directly, by a caller that holds a position dict *)

\* _execute_additional_buy(code, position, price) on the dict of an open
\* position.  The method does not look at second_buy_done.
call_additional_buy ==
    /\ call.n < MaxCalls
    /\ \E i \in 1..Len(positions) : \E price \in Quotes \ {NoPrice} :
        LET p == positions[i]
            st == _execute_additional_buy(Ledger, p.stock_code, p, price, TRUE, TRUE)
        IN  /\ positions' = st.positions
            /\ order_history' = st.order_history
            /\ closed' = st.closed
            /\ events' = st.events
            /\ call' = [op |-> "additional_buy", illegal |-> p.second_buy_done,
                        raised |-> FALSE,
                        changed |-> st.positions # positions \/ st.order_history # order_history,
                        n |-> call.n + 1]
    /\ UNCHANGED <<now, replay, bt, opt, calib, cmp, sched, data>>

\* The dict of the position that order_history[i] closed, as a caller still holds it.
StalePosition(i) ==
    [stock_code |-> order_history[i].stock_code,
     quantity   |-> order_history[i].quantity,
     entry_time |-> closed[i].entry_time]

\* _execute_additional_buy on the dict of a closed position: the dict is
\* updated, self.positions is not touched, nothing is raised.
call_additional_buy_closed ==
    /\ call.n < MaxCalls
    /\ order_history # <<>>
    /\ call' = [op |-> "additional_buy", illegal |-> TRUE, raised |-> FALSE,
                changed |-> FALSE, n |-> call.n + 1]
    /\ events' = {}
    /\ UNCHANGED <<now, positions, order_history, closed, replay, bt, opt, calib, cmp, sched, data>>

\* _execute_sell_order on the dict of a closed position: the record is
\* appended, then del self.positions[stock_code] raises KeyError unless the
\* stock has been bought again, in which case the new position is deleted.
call_sell_order_closed ==
    /\ call.n < MaxCalls
    /\ \E i \in 1..Len(order_history) : \E price \in Quotes \ {NoPrice} :
        LET p == StalePosition(i)
            st == _execute_sell_order(Ledger, p.stock_code, p, price, "take_profit", TRUE,
                                      TRUE, now)
        IN  /\ positions' = st.positions
            /\ order_history' = st.order_history
            /\ closed' = st.closed
            /\ events' = st.events
            /\ call' = [op |-> "sell_order", illegal |-> TRUE,
                        raised |-> p.stock_code \notin Codes(positions),
                        changed |-> TRUE, n |-> call.n + 1]
    /\ UNCHANGED <<now, replay, bt, opt, calib, cmp, sched, data>>

NextCalls ==
    \/ Next
    \/ call_additional_buy
    \/ call_additional_buy_closed
    \/ call_sell_order_closed

SpecCalls == Init /\ [][NextCalls]_vars

-----------------------------------------------------------------------------
(* StrategyOptimizer.find_optimal_take_profit_stop_loss: the replay of one   *)
(* crash row under one (tp, sl) pair.  Returns and thresholds in percent.    *)

take_profit_range == {5, 7, 10, 12, 15, 20}
stop_loss_range == {1, 2, 3, 5}

\* row['rebound_d1'] .. row['rebound_d5']
Rebounds == {-4, -2, 3, 4, 5}

\* daily_returns: the rebound columns the row has, none to MaxLen of them
DailyReturns == UNION { [1..k -> Rebounds] : k \in 0..MaxLen }

\* exit_day = None
NoExitDay == 0

\* for day, daily_ret in enumerate(daily_returns, 1): ... break
RECURSIVE ReplayLoop(_, _, _, _, _)
ReplayLoop(daily_returns, day, cumulative_return, tp, sl) ==
    IF day > Len(daily_returns)
    THEN [exit_day |-> NoExitDay, exit_return |-> 0,
          cumulative_return |-> cumulative_return]
    ELSE LET c == cumulative_return + daily_returns[day] IN
         IF c >= tp
         THEN [exit_day |-> day, exit_return |-> tp, cumulative_return |-> c]
         ELSE IF c <= -sl
         THEN [exit_day |-> day, exit_return |-> -sl, cumulative_return |-> c]
         ELSE ReplayLoop(daily_returns, day + 1, c, tp, sl)

\* A variant that reports the cumulative return reached, not the threshold.
ReplayTrade_uncapped(daily_returns, tp, sl) ==
    LET r == ReplayLoop(daily_returns, 1, 0, tp, sl) IN
    [tp |-> tp, sl |-> sl,
     return |-> r.cumulative_return,
     days |-> IF r.exit_day = NoExitDay THEN Len(daily_returns) ELSE r.exit_day,
     success |-> r.cumulative_return > 0]

\* The trade appended for one row
ReplayTrade(daily_returns, tp, sl) ==
    LET r == ReplayLoop(daily_returns, 1, 0, tp, sl)
        exit_day == IF r.exit_day = NoExitDay THEN Len(daily_returns) ELSE r.exit_day
        exit_return == IF r.exit_day = NoExitDay THEN r.cumulative_return
                       ELSE r.exit_return
    IN  [tp |-> tp, sl |-> sl, return |-> exit_return, days |-> exit_day,
         success |-> exit_return > 0]

\* A row with forward returns: replayed, its trade appended
replay_row ==
    /\ replay.pc = "row"
    /\ replay.daily_returns # <<>>
    /\ replay' = [replay EXCEPT
                    !.pc = "done",
                    !.trades = Append(@, ReplayTrade(replay.daily_returns,
                                                     replay.tp, replay.sl))]
    /\ UNCHANGED <<now, positions, order_history, events, closed, call, bt, opt, calib, cmp, sched, data>>

\* if not daily_returns: continue
replay_skip ==
    /\ replay.pc = "row"
    /\ replay.daily_returns = <<>>
    /\ replay' = [replay EXCEPT !.pc = "done"]
    /\ UNCHANGED <<now, positions, order_history, events, closed, call, bt, opt, calib, cmp, sched, data>>

InitReplay ==
    /\ now = 0
    /\ positions = <<>>
    /\ order_history = <<>>
    /\ events = {}
    /\ closed = <<>>
    /\ call = NoCall
    /\ cmp = CmpIdle
    /\ sched = SchedIdle
    /\ data = DataIdle
    /\ opt = OptIdle
    /\ calib = CalibIdle
    /\ replay \in { [pc |-> "row", daily_returns |-> d, tp |-> tp, sl |-> sl,
                     trades |-> <<>>] :
                    d \in DailyReturns, tp \in take_profit_range, sl \in stop_loss_range }
    /\ bt = BtIdle

NextReplay ==
    \/ replay_row
    \/ replay_skip

SpecReplay == InitReplay /\ [][NextReplay]_vars

-----------------------------------------------------------------------------
(* Backtester._simulate_exit.  df is the close column, row idx of the frame  *)
(* being df[idx + 1]; thresholds in thousandths; a timestamp is its row.     *)

Closes == {960, 1000, 1040}

\* The frame from the entry candle on: the entry candle and up to MaxBars more
Frames == UNION { [1..k -> Closes] : k \in 1..(MaxBars + 1) }

\* exit_rules, the default thresholds among them
ExitRules ==
    { [stop_loss |-> sl, take_profit |-> 30, max_holding_bars |-> m] :
        sl \in {-15, 40}, m \in {1, 30} }

close_at(df, idx) == df[idx + 1]

\* current_return <= stop_loss
ReturnLE(current_price, entry_price, threshold) ==
    (current_price - entry_price) * 1000 <= threshold * entry_price

\* current_return >= take_profit
ReturnGE(current_price, entry_price, threshold) ==
    (current_price - entry_price) * 1000 >= threshold * entry_price

\* for i in range(1, max_holding + 1), and the exit after the loop
RECURSIVE ExitLoop(_, _, _, _, _)
ExitLoop(df, entry_idx, entry_price, exit_rules, i) ==
    LET idx == entry_idx + i
        final_idx == Min(entry_idx + exit_rules.max_holding_bars, Len(df) - 1)
    IN  IF i > exit_rules.max_holding_bars \/ idx >= Len(df)
        THEN [exit_time |-> final_idx, exit_price |-> close_at(df, final_idx),
              reason |-> "max_holding"]
        ELSE LET current_price == close_at(df, idx) IN
             IF ReturnLE(current_price, entry_price, exit_rules.stop_loss)
             THEN [exit_time |-> idx, exit_price |-> current_price,
                   reason |-> "stop_loss"]
             ELSE IF ReturnGE(current_price, entry_price, exit_rules.take_profit)
             THEN [exit_time |-> idx, exit_price |-> current_price,
                   reason |-> "take_profit"]
             ELSE ExitLoop(df, entry_idx, entry_price, exit_rules, i + 1)

_simulate_exit(df, entry_idx, entry_price, exit_rules) ==
    ExitLoop(df, entry_idx, entry_price, exit_rules, 1)

\* run_backtest's call: entry at the close of the entry candle
simulate_exit ==
    /\ bt.pc = "entered"
    /\ bt' = [bt EXCEPT
                !.pc = "exited",
                !.exit_result = _simulate_exit(bt.df, bt.entry_idx,
                                               close_at(bt.df, bt.entry_idx),
                                               bt.exit_rules)]
    /\ UNCHANGED <<now, positions, order_history, events, closed, call, replay, opt, calib, cmp, sched, data>>

\* The next event of the run is taken up
next_event ==
    /\ bt.pc = "exited"
    /\ \E df \in Frames : \E rules \in ExitRules :
        bt' = [pc |-> "entered", df |-> df, entry_idx |-> 0, exit_rules |-> rules,
               exit_result |-> bt.exit_result]
    /\ UNCHANGED <<now, positions, order_history, events, closed, call, replay, opt, calib, cmp, sched, data>>

InitBacktest ==
    /\ now = 0
    /\ positions = <<>>
    /\ order_history = <<>>
    /\ events = {}
    /\ closed = <<>>
    /\ call = NoCall
    /\ cmp = CmpIdle
    /\ sched = SchedIdle
    /\ data = DataIdle
    /\ opt = OptIdle
    /\ calib = CalibIdle
    /\ replay = ReplayIdle
    /\ bt \in { [pc |-> "entered", df |-> df, entry_idx |-> 0, exit_rules |-> rules,
                 exit_result |-> [exit_time |-> 0, exit_price |-> 0, reason |-> "none"]] :
                df \in Frames, rules \in ExitRules }

NextBacktest ==
    \/ simulate_exit
    \/ next_event

SpecBacktest == InitBacktest /\ [][NextBacktest]_vars

-----------------------------------------------------------------------------
(* Backtester.run_backtest, called again and again on one instance.  The     *)
(* frame is the close column from row 0 on; position_size is one tenth.      *)

initial_capital == 10000000

\* vi_events: the row of the VI and the rebound rate of the event
ViEvents ==
    { <<>>,
      <<[index |-> 0, rebound_rate |-> 3]>>,
      <<[index |-> 0, rebound_rate |-> 1]>>,
      <<[index |-> 0, rebound_rate |-> 3], [index |-> 1, rebound_rate |-> 3]>>,
      <<[index |-> MaxBars, rebound_rate |-> 3]>> }

_check_entry_rules(event, rules) == ~(event.rebound_rate < rules.min_rebound_rate)

\* for event in vi_events: the local capital and self.trades after the loop
RECURSIVE EventLoop(_, _, _, _, _, _)
EventLoop(df, vi_events, k, exit_rules, capital, trades) ==
    IF k > Len(vi_events)
    THEN [capital |-> capital, trades |-> trades]
    ELSE LET event == vi_events[k]
             entry_idx == event.index + 1
         IN  IF ~_check_entry_rules(event, bt.entry_rules) \/ entry_idx >= Len(df)
             THEN EventLoop(df, vi_events, k + 1, exit_rules, capital, trades)
             ELSE LET entry_price == close_at(df, entry_idx)
                      shares == capital \div (10 * entry_price)
                      exit_result == _simulate_exit(df, entry_idx, entry_price, exit_rules)
                      profit == (exit_result.exit_price - entry_price) * shares
                      trade_record == [entry_time  |-> entry_idx,
                                       entry_price |-> entry_price,
                                       exit_time   |-> exit_result.exit_time,
                                       exit_price  |-> exit_result.exit_price,
                                       shares      |-> shares,
                                       profit      |-> profit,
                                       exit_reason |-> exit_result.reason]
                  IN  IF shares = 0
                      THEN EventLoop(df, vi_events, k + 1, exit_rules, capital, trades)
                      ELSE EventLoop(df, vi_events, k + 1, exit_rules, capital + profit,
                                     Append(trades, trade_record))

\* The list run_backtest appends to: self.trades, as the earlier runs left it
RunTrades(b) == b.trades

\* The dict run_backtest returns; win_rate is win_trades / total_trades
BacktestResult(capital, trades) ==
    [initial_capital |-> initial_capital,
     final_capital   |-> capital,
     total_trades    |-> Len(trades),
     win_trades      |-> Len(SelectSeq(trades, LAMBDA t : t.profit > 0)),
     trades          |-> trades]

\* run_backtest(df, vi_events, entry_rules, exit_rules) with the same
\* arguments as the run before
run_backtest ==
    /\ bt.pc = "instance"
    /\ Len(bt.results) < MaxBtRuns
    /\ LET r == EventLoop(bt.df, bt.vi_events, 1, bt.exit_rules, initial_capital,
                          RunTrades(bt))
       IN  bt' = [bt EXCEPT !.trades = r.trades,
                            !.results = Append(@, BacktestResult(r.capital, r.trades))]
    /\ UNCHANGED <<now, positions, order_history, events, closed, call, replay, opt, calib,
                   cmp, sched, data>>

InitRuns ==
    /\ now = 0
    /\ positions = <<>>
    /\ order_history = <<>>
    /\ events = {}
    /\ closed = <<>>
    /\ call = NoCall
    /\ cmp = CmpIdle
    /\ sched = SchedIdle
    /\ data = DataIdle
    /\ opt = OptIdle
    /\ calib = CalibIdle
    /\ replay = ReplayIdle
    /\ bt \in { [pc |-> "instance", df |-> df, vi_events |-> ev,
                 entry_rules |-> [min_rebound_rate |-> 2], exit_rules |-> rules,
                 trades |-> <<>>, results |-> <<>>] :
                df \in Frames, ev \in ViEvents, rules \in ExitRules }

NextRuns == run_backtest

SpecRuns == InitRuns /\ [][NextRuns]_vars

-----------------------------------------------------------------------------
(* RealtimeLearningUpdater.calculate_optimal_exit_points from its inputs:    *)
(* the crash history of the stock and what the price reader returns for     *)
(* each event.  Percent values in quarter-percent units.                     *)

\* _get_max_return_after_crash for one event: None (fewer than two candles,
\* or an exception), or the max return
MaxReturnOutcomes ==
    { [ok |-> FALSE, v |-> 0] } \cup { [ok |-> TRUE, v |-> Pct(x)] : x \in {0, 4, 12, 30} }

\* The lows read for one event in _get_average_lowest_point: no candles, an
\* exception of the reader, or the drop rate of the lowest low
LowOutcomes ==
    { [kind |-> "none", v |-> 0], [kind |-> "raise", v |-> 0] }
        \cup { [kind |-> "value", v |-> Pct(x)] : x \in {-9, -3, 0} }

\* df_history: the crash events of the stock
HistoryRows ==
    UNION { [1..k -> [max_return : MaxReturnOutcomes, lowest : LowOutcomes]] : k \in 0..MaxRows }

\* history: main_data_path is read, does not exist, or reading it raises;
\* raises: a step of the try body raises (a row without 'Date', say)
OptInputs ==
    [history : {"read", "missing", "error"}, rows : HistoryRows, raises : BOOLEAN]

\* _get_crash_history: an empty frame unless the file is read
_get_crash_history(in) == IF in.history = "read" THEN in.rows ELSE <<>>

\* if max_return: max_returns.append(max_return)
Truthy(r) == r.max_return.ok /\ r.max_return.v # 0

max_returns_of(df_history) ==
    LET kept == SelectSeq(df_history, Truthy) IN
    [i \in 1..Len(kept) |-> kept[i].max_return.v]

RECURSIVE SumSeq(_)
SumSeq(q) == IF q = <<>> THEN 0 ELSE Head(q) + SumSeq(Tail(q))

\* The k-th smallest value of q
RECURSIVE Smallest(_, _)
Smallest(q, k) ==
    LET m == CHOOSE i \in 1..Len(q) : \A j \in 1..Len(q) : q[i] <= q[j]
        rest == [i \in 1..(Len(q) - 1) |-> IF i < m THEN q[i] ELSE q[i + 1]]
    IN  IF k = 1 THEN q[m] ELSE Smallest(rest, k - 1)

\* np.percentile(q, 75): linear interpolation at position 0.75 * (n - 1)
percentile75(q) ==
    LET n == Len(q)
        k == (3 * (n - 1)) \div 4
        r == (3 * (n - 1)) % 4
    IN  IF r = 0 THEN Smallest(q, k + 1)
        ELSE (Smallest(q, k + 1) * (4 - r) + Smallest(q, k + 2) * r) \div 4

\* _get_average_lowest_point
_get_average_lowest_point(df_history) ==
    LET read == SelectSeq(df_history, LAMBDA r : r.lowest.kind = "value")
        lowest_points == [i \in 1..Len(read) |-> read[i].lowest.v]
    IN  IF \E i \in 1..Len(df_history) : df_history[i].lowest.kind = "raise"
            THEN Pct(-3)
        ELSE IF lowest_points # <<>>
            THEN SumSeq(lowest_points) \div Len(lowest_points)
        ELSE Pct(-3)

\* What the body of calculate_optimal_exit_points computes from df_history
HistoryOf(df_history) ==
    LET max_returns == max_returns_of(df_history) IN
    [empty      |-> df_history = <<>>,
     no_returns |-> max_returns = <<>>,
     p75        |-> IF max_returns = <<>> THEN 0 ELSE percentile75(max_returns),
     avg_lowest |-> _get_average_lowest_point(df_history)]

\* calculate_optimal_exit_points(stock_code), with its except branch
optimal_exit_points(in) ==
    LET df_history == _get_crash_history(in) IN
    IF df_history # <<>> /\ in.raises THEN default_exit_points
    ELSE calculate_optimal_exit_points(HistoryOf(df_history))

\* One call of calculate_optimal_exit_points
optimize ==
    /\ opt.pc = "called"
    /\ opt' = [opt EXCEPT !.pc = "returned", !.result = optimal_exit_points(opt.in)]
    /\ UNCHANGED <<now, positions, order_history, events, closed, call, replay, bt, calib, cmp, sched, data>>

InitPolicy ==
    /\ now = 0
    /\ positions = <<>>
    /\ order_history = <<>>
    /\ events = {}
    /\ closed = <<>>
    /\ call = NoCall
    /\ cmp = CmpIdle
    /\ sched = SchedIdle
    /\ data = DataIdle
    /\ replay = ReplayIdle
    /\ bt = BtIdle
    /\ opt \in { [pc |-> "called", in |-> in, result |-> default_exit_points] : in \in OptInputs }
    /\ calib = CalibIdle

NextPolicy == optimize

SpecPolicy == InitPolicy /\ [][NextPolicy]_vars

-----------------------------------------------------------------------------
(* StrategyOptimizer: filter_by_volume, the grid search of                  *)
(* find_optimal_take_profit_stop_loss over self.df_crash, and main's save   *)
(* of the best row.  Returns and thresholds in percent.                      *)

\* filter_by_volume(min_volume=1_000_000) and ai_threshold=0.6, in percent
min_volume == 1000000
ai_threshold == 60

\* take_profit_range and stop_loss_range in the order product() walks them
take_profit_list == <<5, 7, 10, 12, 15, 20>>
stop_loss_list == <<1, 2, 3, 5>>

GridPairs ==
    [k \in 1..(Len(take_profit_list) * Len(stop_loss_list)) |->
        [tp |-> take_profit_list[((k - 1) \div Len(stop_loss_list)) + 1],
         sl |-> stop_loss_list[((k - 1) % Len(stop_loss_list)) + 1]]]

\* The rebound columns of the crash rows of the data
EventReturns == { <<>>, <<-4>>, <<-2, 3>>, <<3, 4, 5>> }

\* A crash row: volume, the model's ai_probability (percent), its rebounds.
\* Rows that pass both thresholds with any of the rebounds, one row short of
\* the volume and one short of the probability.
CrashEvents ==
    { [volume |-> 2000000, ai_probability |-> 75, daily_returns |-> d] : d \in EventReturns }
        \cup { [volume |-> 500000, ai_probability |-> 75, daily_returns |-> <<3, 4, 5>>],
               [volume |-> 2000000, ai_probability |-> 40, daily_returns |-> <<3, 4, 5>>] }

\* self.df_crash after __init__
Populations == UNION { [1..k -> CrashEvents] : k \in 0..MaxEvents }

\* df_high = self.df_crash[self.df_crash['ai_probability'] >= ai_threshold]
df_high_of(df_crash, threshold) ==
    SelectSeq(df_crash, LAMBDA e : e.ai_probability >= threshold)

\* The rows of df_high the loop replays: those with rebound columns
simulated_of(rows) == SelectSeq(rows, LAMBDA e : e.daily_returns # <<>>)

\* The trades of one (tp, sl) pair
TradesOf(rows, pair) ==
    LET sim == simulated_of(rows) IN
    [i \in 1..Len(sim) |-> ReplayTrade(sim[i].daily_returns, pair.tp, pair.sl)]

\* results.append({...}) for one pair; win_rate is wins / trades,
\* avg_return is total_return / trades, avg_days is days / trades
ResultRow(pair, trades) ==
    [take_profit  |-> pair.tp,
     stop_loss    |-> pair.sl,
     trades       |-> Len(trades),
     wins         |-> Cardinality({i \in 1..Len(trades) : trades[i].success}),
     total_return |-> SumSeq([i \in 1..Len(trades) |-> trades[i].return]),
     days         |-> SumSeq([i \in 1..Len(trades) |-> trades[i].days])]

\* results: one row per pair that has trades, in grid order
RECURSIVE GridResults(_, _)
GridResults(rows, k) ==
    IF k > Len(GridPairs) THEN <<>>
    ELSE LET trades == TradesOf(rows, GridPairs[k]) IN
         IF trades = <<>> THEN GridResults(rows, k + 1)
         ELSE <<ResultRow(GridPairs[k], trades)>> \o GridResults(rows, k + 1)

\* df_results.sort_values('total_return', ascending=False): the default sort
\* is not stable, so rows of equal total_return come in an order that the
\* sort implementation fixes: tie_rule stands for it.
SortByTotalReturn(results, tie_rule) ==
    LET n == Len(results)
        Before(j, i) ==
            \/ results[j].total_return > results[i].total_return
            \/ /\ results[j].total_return = results[i].total_return
               /\ IF tie_rule = "first" THEN j < i ELSE j > i
        place == [i \in 1..n |-> Cardinality({j \in 1..n : Before(j, i)}) + 1]
    IN  [p \in 1..n |-> results[CHOOSE i \in 1..n : place[i] = p]]

\* A variant whose order of equal rows changes from one run to the next.
TieRule_drifting(c) == IF Len(c.outputs) % 2 = 0 THEN "first" ELSE "last"

\* The order of equal rows in this run of the sort
TieRule(c) == c.tie_rule

\* filter_by_volume: self.df_crash is replaced, then the report divides by
\* the number of rows before
filter_by_volume ==
    /\ calib.pc \in {"ready", "searched"}
    /\ ~calib.filtered
    /\ calib' = [calib EXCEPT
                    !.df_crash = SelectSeq(calib.df_crash, LAMBDA e : e.volume >= min_volume),
                    !.filtered = TRUE,
                    !.pc = IF calib.df_crash = <<>> THEN "raised" ELSE @]
    /\ UNCHANGED <<now, positions, order_history, events, closed, call, replay, bt, opt, cmp, sched, data>>

\* find_optimal_take_profit_stop_loss(ai_threshold=0.6); sort_values raises
\* on a frame without rows
find_optimal_take_profit_stop_loss ==
    /\ calib.pc \in {"ready", "searched"}
    /\ Len(calib.outputs) < MaxRuns
    /\ LET df_high == df_high_of(calib.df_crash, ai_threshold)
           results == GridResults(df_high, 1)
           df_results == SortByTotalReturn(results, TieRule(calib))
       IN  IF results = <<>>
           THEN calib' = [calib EXCEPT !.pc = "raised", !.simulated = <<>>]
           ELSE calib' = [calib EXCEPT
                            !.pc = "searched",
                            !.simulated = simulated_of(df_high),
                            !.outputs = Append(@, [df_crash   |-> calib.df_crash,
                                                   df_results |-> df_results,
                                                   best       |-> df_results[1]])]
    /\ UNCHANGED <<now, positions, order_history, events, closed, call, replay, bt, opt, cmp, sched, data>>

\* main: json.dump of the best row into optimal_params.json
save_optimal_params ==
    /\ calib.pc = "searched"
    /\ calib.saved.take_profit = 0
    /\ LET best == calib.outputs[Len(calib.outputs)].best IN
       calib' = [calib EXCEPT !.saved = [take_profit |-> best.take_profit,
                                         stop_loss   |-> best.stop_loss]]
    /\ UNCHANGED <<now, positions, order_history, events, closed, call, replay, bt, opt, cmp, sched, data>>

InitCalib ==
    /\ now = 0
    /\ positions = <<>>
    /\ order_history = <<>>
    /\ events = {}
    /\ closed = <<>>
    /\ call = NoCall
    /\ cmp = CmpIdle
    /\ sched = SchedIdle
    /\ data = DataIdle
    /\ replay = ReplayIdle
    /\ bt = BtIdle
    /\ opt = OptIdle
    /\ calib \in { [pc |-> "ready", df_crash |-> p, filtered |-> FALSE, tie_rule |-> t,
                    simulated |-> <<>>, outputs |-> <<>>,
                    saved |-> [take_profit |-> 0, stop_loss |-> 0]] :
                   p \in Populations, t \in {"first", "last"} }

NextCalib ==
    \/ filter_by_volume
    \/ find_optimal_take_profit_stop_loss
    \/ save_optimal_params

SpecCalib == InitCalib /\ [][NextCalib]_vars

-----------------------------------------------------------------------------
(* StrategyOptimizer.compare_capital_strategies and                          *)
(* compare_averaging_strategies.  Returns and thresholds in half-percent     *)
(* units, so the halved cumulative return of the averaging strategy is       *)
(* exact; a booked profit is size times return, in won half-percents.        *)

HalfPct(x) == 2 * x

\* capitals = [1_000_000, 10_000_000, 100_000_000]
capitals == <<1000000, 10000000, 100000000>>

\* main: compare_averaging_strategies(capital=10_000_000, ...)
averaging_capital == 10000000

\* The averaging condition: cumulative_return <= -0.01
averaging_trigger == -1

\* row['rebound_d1'] .. row['rebound_d5'] of the rows compared
CompareReturns == { <<>>, <<-4>>, <<-2, 3>>, <<3, 4, 5>>, <<-2, -4>> }

\* A crash row of the comparison: the volume is enough for every size, or
\* for less than the whole averaging capital
CompareEvents ==
    { [volume |-> 2000000, close |-> 50000, ai_probability |-> 75, daily_returns |-> d] :
        d \in CompareReturns }
        \cup { [volume |-> 150, close |-> 50000, ai_probability |-> 75,
                daily_returns |-> <<-2, 3>>],
               [volume |-> 2000000, close |-> 50000, ai_probability |-> 40,
                daily_returns |-> <<3, 4, 5>>] }

ComparePopulations == UNION { [1..k -> CompareEvents] : k \in 0..MaxEvents }

\* best['take_profit'], best['stop_loss']: a row of the grid
BestPairs == { [tp |-> 5, sl |-> 1], [tp |-> 5, sl |-> 3], [tp |-> 7, sl |-> 3] }

\* row['volume'] < size / row['close'], for a whole volume and a whole price
VolumeShort(row, size) == row.volume <= (size - 1) \div row.close

\* The rows a strategy of this size trades: enough volume, some rebound column
TradedRows(df_high, size) ==
    SelectSeq(df_high, LAMBDA row : ~VolumeShort(row, size) /\ row.daily_returns # <<>>)

\* A variant of the averaging strategy that asks volume for its first half only
AveragingRows_first_half(df_high, capital) == TradedRows(df_high, capital \div 2)

\* The rows the averaging strategy trades: volume for the whole capital
AveragingRows(df_high, capital) == TradedRows(df_high, capital)

\* compare_capital_strategies: the replay of one row
RECURSIVE CapitalLoop(_, _, _, _, _)
CapitalLoop(daily_returns, day, cumulative_return, best_tp, best_sl) ==
    IF day > Len(daily_returns)
    THEN [return |-> cumulative_return, win |-> cumulative_return > 0,
          period |-> Len(daily_returns)]
    ELSE LET c == cumulative_return + HalfPct(daily_returns[day]) IN
         IF c >= HalfPct(best_tp)
         THEN [return |-> HalfPct(best_tp), win |-> TRUE, period |-> day]
         ELSE IF c <= -HalfPct(best_sl)
         THEN [return |-> -HalfPct(best_sl), win |-> FALSE, period |-> day]
         ELSE CapitalLoop(daily_returns, day + 1, c, best_tp, best_sl)

\* compare_averaging_strategies, strategy 1: the replay of one row
RECURSIVE InlineLoop(_, _, _, _, _)
InlineLoop(daily_returns, day, cumulative_return, best_tp, best_sl) ==
    IF day > Len(daily_returns)
    THEN [return |-> cumulative_return, win |-> cumulative_return > 0,
          period |-> Len(daily_returns)]
    ELSE LET c == cumulative_return + HalfPct(daily_returns[day]) IN
         IF c >= HalfPct(best_tp)
         THEN [return |-> HalfPct(best_tp), win |-> TRUE, period |-> day]
         ELSE IF c <= -HalfPct(best_sl)
         THEN [return |-> -HalfPct(best_sl), win |-> FALSE, period |-> day]
         ELSE InlineLoop(daily_returns, day + 1, c, best_tp, best_sl)

\* A variant that books the cumulative return reached, not the threshold.
InlineExit_uncapped(daily_returns, best_tp, best_sl) ==
    LET r == InlineLoop(daily_returns, 1, 0, best_tp, best_sl)
        c == SumSeq([i \in 1..r.period |-> HalfPct(daily_returns[i])])
    IN  [return |-> c, win |-> c > 0, period |-> r.period]

InlineExit(daily_returns, best_tp, best_sl) ==
    InlineLoop(daily_returns, 1, 0, best_tp, best_sl)

\* compare_averaging_strategies, strategy 2: the replay of one row.  invested
\* is counted in halves of the capital.
RECURSIVE AveragingLoop(_, _, _, _, _, _)
AveragingLoop(daily_returns, day, cumulative_return, avg_used_this_trade, best_tp, best_sl) ==
    IF day > Len(daily_returns)
    THEN [return |-> cumulative_return, win |-> cumulative_return > 0,
          period |-> Len(daily_returns), avg_used |-> avg_used_this_trade]
    ELSE LET c0 == cumulative_return + HalfPct(daily_returns[day])
             averages == c0 <= HalfPct(averaging_trigger) /\ ~avg_used_this_trade
             c == IF averages THEN c0 \div 2 ELSE c0
             used == avg_used_this_trade \/ averages
         IN  IF c >= HalfPct(best_tp)
             THEN [return |-> HalfPct(best_tp), win |-> TRUE, period |-> day,
                   avg_used |-> used]
             ELSE IF c <= -HalfPct(best_sl)
             THEN [return |-> -HalfPct(best_sl), win |-> FALSE, period |-> day,
                   avg_used |-> used]
             ELSE AveragingLoop(daily_returns, day + 1, c, used, best_tp, best_sl)

\* The trades compare_capital_strategies books for one capital
CapitalTrades(rows, size, best_tp, best_sl) ==
    [i \in 1..Len(rows) |->
        LET x == CapitalLoop(rows[i].daily_returns, 1, 0, best_tp, best_sl) IN
        [row |-> rows[i], size |-> size, profit |-> size * x.return,
         win |-> x.win, period |-> x.period]]

\* The trades strategy 1 books, in the order of df_high
InlineTrades(rows, size, best_tp, best_sl) ==
    [i \in 1..Len(rows) |->
        LET x == InlineExit(rows[i].daily_returns, best_tp, best_sl) IN
        [row |-> rows[i], size |-> size, profit |-> size * x.return,
         win |-> x.win, period |-> x.period]]

\* Strategy 2: invested is one half of the capital, two after the averaging buy
AveragingTrades(rows, capital, best_tp, best_sl) ==
    [i \in 1..Len(rows) |->
        LET x == AveragingLoop(rows[i].daily_returns, 1, 0, FALSE, best_tp, best_sl)
            invested == IF x.avg_used THEN capital ELSE capital \div 2
        IN  [row |-> rows[i], size |-> invested, profit |-> invested * x.return,
             win |-> x.win, period |-> x.period, avg_used |-> x.avg_used]]

\* trades, wins and total_profit of a strategy
StrategyRow(trades) ==
    [trades       |-> Len(trades),
     wins         |-> Len(SelectSeq(trades, LAMBDA t : t.win)),
     total_profit |-> SumSeq([i \in 1..Len(trades) |-> trades[i].profit])]

\* compare_capital_strategies(best_tp, best_sl, ai_threshold=0.6): one result
\* per capital, position_size = capital * 0.1
compare_capital_strategies ==
    /\ cmp.pc = "ready"
    /\ LET df_high == df_high_of(cmp.df_crash, ai_threshold)
           booked == [k \in 1..Len(capitals) |->
                        CapitalTrades(TradedRows(df_high, capitals[k] \div 10),
                                      capitals[k] \div 10, cmp.best_tp, cmp.best_sl)]
       IN  cmp' = [cmp EXCEPT !.pc = "capital",
                              !.capital_trades = booked,
                              !.results = [k \in 1..Len(capitals) |-> StrategyRow(booked[k])]]
    /\ UNCHANGED <<now, positions, order_history, events, closed, call, replay, bt, opt,
                   calib, sched, data>>

\* compare_averaging_strategies(capital=10_000_000, best_tp, best_sl,
\* ai_threshold=0.6); the report of strategy 2 divides by trades_s2
compare_averaging_strategies ==
    /\ cmp.pc = "capital"
    /\ LET df_high == df_high_of(cmp.df_crash, ai_threshold)
           s1 == InlineTrades(TradedRows(df_high, averaging_capital), averaging_capital,
                              cmp.best_tp, cmp.best_sl)
           s2 == AveragingTrades(AveragingRows(df_high, averaging_capital),
                                 averaging_capital, cmp.best_tp, cmp.best_sl)
       IN  cmp' = [cmp EXCEPT !.pc = IF Len(s2) = 0 THEN "raised" ELSE "averaged",
                              !.s1_trades = s1,
                              !.s2_trades = s2,
                              !.strategies = IF Len(s2) = 0 THEN <<StrategyRow(s1)>>
                                             ELSE <<StrategyRow(s1), StrategyRow(s2)>>]
    /\ UNCHANGED <<now, positions, order_history, events, closed, call, replay, bt, opt,
                   calib, sched, data>>

InitCompare ==
    /\ now = 0
    /\ positions = <<>>
    /\ order_history = <<>>
    /\ events = {}
    /\ closed = <<>>
    /\ call = NoCall
    /\ replay = ReplayIdle
    /\ bt = BtIdle
    /\ opt = OptIdle
    /\ calib = CalibIdle
    /\ sched = SchedIdle
    /\ data = DataIdle
    /\ cmp \in { [pc |-> "ready", df_crash |-> p, best_tp |-> b.tp, best_sl |-> b.sl,
                  capital_trades |-> <<>>, results |-> <<>>,
                  s1_trades |-> <<>>, s2_trades |-> <<>>, strategies |-> <<>>] :
                 p \in ComparePopulations, b \in BestPairs }

NextCompare ==
    \/ compare_capital_strategies
    \/ compare_averaging_strategies

SpecCompare == InitCompare /\ [][NextCompare]_vars

-----------------------------------------------------------------------------
(* RealtimeLearningUpdater: detect_realtime_crash, save_daily_crash and      *)
(* merge_realtime_to_training_data.  A Date is <<day, time of day>>: the     *)
(* detector stamps a crash with datetime.now(), the training data carries    *)
(* the day at time 0.                                                        *)

CrashCodes == {"A", "B"}
ScanDays == {0, 1}
ScanTimes == {1, 2}

\* subset=['stock_code', 'Date']
KeyOf(row) == <<row.stock_code, row.Date>>

\* drop_duplicates(subset=[...], keep='last')
drop_duplicates(df) ==
    LET kept == { i \in 1..Len(df) : \A j \in (i + 1)..Len(df) : KeyOf(df[j]) # KeyOf(df[i]) }
        nth(k) == CHOOSE i \in kept : Cardinality({ j \in kept : j < i }) = k - 1
    IN  [k \in 1..Cardinality(kept) |-> df[nth(k)]]

\* Order of sort_values(['stock_code', 'Date'])
RowBefore(a, b) ==
    \/ (a.stock_code = "A" /\ b.stock_code = "B")
    \/ /\ a.stock_code = b.stock_code
       /\ \/ a.Date[1] < b.Date[1]
          \/ a.Date[1] = b.Date[1] /\ a.Date[2] < b.Date[2]

\* sort_values(['stock_code', 'Date']).reset_index(drop=True), on rows whose
\* keys differ after drop_duplicates, or on rows of equal keys in their order
sort_values(df) ==
    LET rank(i) == Cardinality({ j \in 1..Len(df) :
                        RowBefore(df[j], df[i]) \/ (~RowBefore(df[i], df[j]) /\ j < i) })
    IN  [k \in 1..Len(df) |-> df[CHOOSE i \in 1..Len(df) : rank(i) = k - 1]]

\* One scan of a stock: detect_realtime_crash returns crash_info ('stock_code',
\* 'Date': today) or None, and a crash is appended to the file of the day by
\* save_daily_crash
detect_and_save ==
    /\ data.pc = "running"
    /\ data.saves < MaxScans
    /\ \E stock_code \in CrashCodes : \E crashed \in BOOLEAN :
        data' = IF crashed
                THEN [data EXCEPT !.saves = @ + 1,
                                  !.realtime = Append(@, [stock_code |-> stock_code,
                                                          Date |-> <<data.day, data.time>>])]
                ELSE data
    /\ UNCHANGED <<now, positions, order_history, events, closed, call, replay, bt, opt,
                   calib, cmp, sched>>

\* datetime.now() moves on, within the day or to the next day
data_clock ==
    /\ data.pc = "running"
    /\ \/ /\ data.time + 1 \in ScanTimes
          /\ data' = [data EXCEPT !.time = @ + 1]
       \/ /\ data.day + 1 \in ScanDays
          /\ data' = [data EXCEPT !.day = @ + 1, !.time = 1]
    /\ UNCHANGED <<now, positions, order_history, events, closed, call, replay, bt, opt,
                   calib, cmp, sched>>

\* merge_realtime_to_training_data: returns early without the training file
\* or without crash files; the merged files are moved to archived/
merge_realtime_to_training_data ==
    /\ data.pc = "running"
    /\ data.main_exists
    /\ data.realtime # <<>>
    /\ data' = [data EXCEPT
                    !.main = sort_values(drop_duplicates(data.main \o data.realtime)),
                    !.realtime = <<>>,
                    !.merges = @ + 1]
    /\ UNCHANGED <<now, positions, order_history, events, closed, call, replay, bt, opt,
                   calib, cmp, sched>>

InitData ==
    /\ now = 0
    /\ positions = <<>>
    /\ order_history = <<>>
    /\ events = {}
    /\ closed = <<>>
    /\ call = NoCall
    /\ replay = ReplayIdle
    /\ bt = BtIdle
    /\ opt = OptIdle
    /\ calib = CalibIdle
    /\ cmp = CmpIdle
    /\ sched = SchedIdle
    /\ data \in { [pc |-> "running", day |-> 0, time |-> 1, saves |-> 0, merges |-> 0,
                   realtime |-> <<>>, main_exists |-> e, main |-> m] :
                  e \in BOOLEAN,
                  m \in { <<>>, <<[stock_code |-> "A", Date |-> <<0, 0>>]>> } }

NextData ==
    \/ detect_and_save
    \/ data_clock
    \/ merge_realtime_to_training_data

SpecData == InitData /\ [][NextData]_vars

-----------------------------------------------------------------------------
(* Claims *)

\* C1: the capital committed to the open positions (the money spent on their
\* first and second tranches) never exceeds total_capital.
C1_CommittedWithinTotalCapital == SumCommitted(positions) <= total_capital

\* Three positions are open and each has had its second tranche.
C1_Witness ==
    /\ Len(positions) = max_positions
    /\ \A i \in 1..Len(positions) : positions[i].second_buy_done

\* C2: the number of open positions is at most max_positions.
C2_AtMostMaxPositions == Len(positions) <= max_positions

\* max_positions positions are open, one of them opened after a sale.
C2_Witness == Len(positions) = max_positions /\ order_history # <<>>

\* C3: once a position has been averaged it is never averaged again: while it
\* stays open its second_buy_done stays set and its quantity and entry price
\* no longer change.
C3_AveragedAtMostOnce ==
    [][\A i \in 1..Len(positions) :
        LET p == positions[i] IN
        (p.second_buy_done /\ p.stock_code \in Codes(positions')) =>
            LET q == PosOf(positions', p.stock_code) IN
            /\ q.second_buy_done
            /\ q.quantity = p.quantity
            /\ q.entry_price = p.entry_price]_vars

\* An averaged position is open on the day its holding period has run out.
C3_Witness ==
    \E i \in 1..Len(positions) :
        /\ positions[i].second_buy_done
        /\ holding_days(positions[i], now) >= max_holding_days

C5_ExpiredIsNotAveraged ==
    [][\A i \in 1..Len(positions) :
        LET p == positions[i] IN
        (/\ holding_days(p, now) >= max_holding_days
         /\ ~p.second_buy_done
         /\ p.stock_code \in Codes(positions'))
            => ~PosOf(positions', p.stock_code).second_buy_done]_vars

\* C6: whenever take-profit and stop-loss both hold in an evaluation, the
\* exit is a take-profit exit; here for the Backtester's exit simulation.
C6_TakeProfitWinsTie ==
    bt.pc = "exited" =>
        LET r == bt.exit_result
            entry_price == close_at(bt.df, bt.entry_idx)
        IN  (/\ r.exit_time > bt.entry_idx
             /\ ReturnGE(r.exit_price, entry_price, bt.exit_rules.take_profit)
             /\ ReturnLE(r.exit_price, entry_price, bt.exit_rules.stop_loss))
                => r.reason = "take_profit"

\* The running sum of the first k forward returns
RECURSIVE Cumulative(_, _)
Cumulative(daily_returns, k) ==
    IF k = 0 THEN 0 ELSE Cumulative(daily_returns, k - 1) + daily_returns[k]

Triggered(daily_returns, tp, sl, k) ==
    \/ Cumulative(daily_returns, k) >= tp
    \/ Cumulative(daily_returns, k) <= -sl

\* C7: the replay exits at the first period whose cumulative return is >= tp,
\* with return exactly tp, or <= -sl, with return exactly -sl; with no such
\* period it exits at the last period with the cumulative return itself.
\* [3, 4, 5] with tp 10 exits at period 3 with 10; [-2, -4] with sl 5 exits
\* at period 2 with -5.
C7_ReplayExit ==
    (replay.pc = "done" /\ replay.daily_returns # <<>>) =>
        LET d == replay.daily_returns
            tp == replay.tp
            sl == replay.sl
            t == replay.trades[Len(replay.trades)]
            hits == {k \in 1..Len(d) : Triggered(d, tp, sl, k)}
        IN  /\ Len(replay.trades) = 1
            /\ hits = {} => /\ t.days = Len(d)
                            /\ t.return = Cumulative(d, Len(d))
            /\ hits # {} =>
                /\ t.days \in hits
                /\ \A k \in hits : t.days <= k
                /\ Cumulative(d, t.days) >= tp => t.return = tp
                /\ Cumulative(d, t.days) <= -sl => t.return = -sl
            /\ (d = <<3, 4, 5>> /\ tp = 10 /\ sl = 5) => (t.days = 3 /\ t.return = 10)
            /\ (d = <<-2, -4>> /\ sl = 5) => (t.days = 2 /\ t.return = -5)

\* The row [3, 4, 5] has been replayed under tp 10, sl 5.
C7_Witness ==
    /\ replay.pc = "done"
    /\ replay.daily_returns = <<3, 4, 5>>
    /\ replay.tp = 10
    /\ replay.sl = 5
    /\ Len(replay.trades) = 1

\* C8: a failed fill (first buy, additional buy or sell) leaves the stock's
\* position as it was, open or not, and appends nothing to order_history
\* for it.
C8_FailedFillChangesNothing ==
    [][\A e \in events' :
        e.kind \in {"buy_failed", "add_failed", "sell_failed"} =>
            /\ (e.stock_code \in Codes(positions')) = (e.stock_code \in Codes(positions))
            /\ e.stock_code \in Codes(positions) =>
                    PosOf(positions', e.stock_code) = PosOf(positions, e.stock_code)
            /\ Len(order_history') >= Len(order_history)
            /\ \A i \in 1..Len(order_history') :
                    IF i <= Len(order_history) THEN order_history'[i] = order_history[i]
                    ELSE order_history'[i].stock_code # e.stock_code]_vars

\* The sell of an open position has just failed.
C8_Witness ==
    \E e \in events : e.kind = "sell_failed" /\ e.stock_code \in Codes(positions)

\* C9: an illegal call (averaging an averaged position, averaging or selling
\* a closed one) raises and changes neither positions nor order_history.
C9_IllegalCallFailsLoudly == call.illegal => (call.raised /\ ~call.changed)

\* C10: a crash signal met while max_positions positions are open leaves
\* positions, order_history and the record of closed positions as they were.
C10_FullLeavesLedger ==
    Len(positions) = max_positions =>
        \A code \in Stocks \ Codes(positions) : \A sig \in Signals(DayEnv) \cup Signals(LongEnv) :
            LET st == ScanSignal(Ledger, code, sig, now) IN
            /\ st.positions = positions
            /\ st.order_history = order_history
            /\ st.closed = closed

\* A scan has just passed over a crash for want of a free slot.
C10_Witness ==
    /\ Len(positions) = max_positions
    /\ \E e \in events : e.kind = "full" /\ e.stock_code \notin Codes(positions)

\* C11: a crash signal on a stock that has an open position opens nothing:
\* the position's entry price, quantity, first_buy_amount, second_buy_done,
\* entry time and exit points stay as they are, whatever the signal.
C11_HeldIsNotReopened ==
    \A i \in 1..Len(positions) : \A sig \in Signals(LongEnv) \cup Signals(DayEnv) :
        LET st == ScanSignal(Ledger, positions[i].stock_code, sig, now) IN
        /\ st.positions = positions
        /\ st.order_history = order_history

\* A scan on a later day has just met a crash of a stock whose position is
\* averaged.
C11_Witness ==
    \E e \in events : \E i \in 1..Len(positions) :
        /\ e.kind = "held"
        /\ e.stock_code = positions[i].stock_code
        /\ positions[i].second_buy_done
        /\ now > positions[i].entry_time

\* The capital not committed to open positions, and the first-tranche budget
\* the specification derives from it: min(per-trade cap, available) * 0.5.
Available(ps) == total_capital - SumCommitted(ps)

TrancheBudget(ps) == Min(max_per_trade, Available(ps)) \div 2

\* C12, as stated: on a successful open the capital committed to the first
\* tranche equals min(max_per_trade, available capital) * 0.5.
C12_FirstTrancheIsBudget ==
    \A code \in Stocks \ Codes(positions) : \A sig \in Signals(LongEnv) \cup Signals(DayEnv) :
        LET st == ScanSignal(Ledger, code, sig, now) IN
        st.positions # positions =>
            PosOf(st.positions, code).first_buy_amount = TrancheBudget(positions)

\* C12, amended: on a successful open the capital committed to the first
\* tranche is the price of the largest whole number of shares, at least one,
\* that min(max_per_trade, available capital) * 0.5 buys.
C12_FirstTrancheWithinBudget ==
    \A code \in Stocks \ Codes(positions) : \A sig \in Signals(LongEnv) \cup Signals(DayEnv) :
        LET st == ScanSignal(Ledger, code, sig, now) IN
        st.positions # positions =>
            LET p == PosOf(st.positions, code) IN
            /\ p.quantity >= 1
            /\ p.quantity = TrancheBudget(positions) \div sig.Close
            /\ p.first_buy_amount = p.quantity * sig.Close
            /\ Committed(p) = p.first_buy_amount
            /\ st.positions = Append(positions, p)

\* A third position has been opened while two averaged positions hold capital.
C12_Witness ==
    /\ Len(positions) = max_positions
    /\ positions[1].second_buy_done
    /\ positions[2].second_buy_done
    /\ ~positions[3].second_buy_done
    /\ Committed(positions[3]) = positions[3].first_buy_amount

\* C13: when the second tranche fills, the quantity becomes q1 + q2 and the
\* entry price e' satisfies e' * (q1 + q2) = q1 * e + q2 * price, so that e'
\* lies between the fill price and the old entry price e.
C13_WeightedAverage ==
    [][\A i \in 1..Len(positions) :
        LET p == positions[i] IN
        (/\ ~p.second_buy_done
         /\ p.stock_code \in Codes(positions')
         /\ PosOf(positions', p.stock_code).second_buy_done) =>
            LET q == PosOf(positions', p.stock_code)
                e == p.entry_price
                f == q.entry_price
            IN  \E price \in Quotes \ {NoPrice} :
                LET q2 == second_buy_quantity(price) IN
                /\ q2 >= 1
                /\ q.quantity = p.quantity + q2
                /\ f.num * q.quantity * e.den
                        = (p.quantity * e.num + q2 * price * e.den) * f.den
                /\ price * f.den <= f.num
                /\ f.num * e.den <= e.num * f.den
                /\ q.first_buy_amount = p.first_buy_amount
                /\ q.entry_time = p.entry_time]_vars

\* A position of 2 shares at 17000 has been averaged with 3 shares at 16400:
\* 5 shares at 16640.
C13_Witness ==
    \E i \in 1..Len(positions) :
        /\ positions[i].second_buy_done
        /\ positions[i].quantity = 5
        /\ positions[i].entry_price.num = 16640 * positions[i].entry_price.den

\* C14: every best policy of the grid search, the returned best row and the
\* saved optimal_params alike, has target profit > 0 > stop loss.
C14_TargetAboveZeroAboveStop ==
    /\ \A i \in 1..Len(calib.outputs) :
        /\ calib.outputs[i].best.take_profit > 0
        /\ calib.outputs[i].best.stop_loss < 0
    /\ calib.saved.take_profit # 0 =>
        /\ calib.saved.take_profit > 0
        /\ calib.saved.stop_loss < 0

\* C15: in every policy calculate_optimal_exit_points returns, the
\* additional-buy point lies strictly between the stop loss and 0.
C15_TriggerBetweenStopAndZero ==
    opt.pc = "returned" =>
        /\ opt.result.stop_loss < opt.result.add_buy_point
        /\ opt.result.add_buy_point < 0

\* The maximum excursions that could be computed for the events of a history
excursions_of(df_history) ==
    LET got == SelectSeq(df_history, LAMBDA r : r.max_return.ok) IN
    [i \in 1..Len(got) |-> got[i].max_return.v]

Clamp(x, lo, hi) == Max(lo, Min(x, hi))

\* C16: for a non-empty set of maximum excursions the target is their 75th
\* percentile clamped into [5, 20], the stop loss is -5 and, the lows of all
\* events being read, the additional-buy point is the mean drop clamped into
\* [-5, -2].
C16_PolicyFromExcursions ==
    LET df_history == _get_crash_history(opt.in)
        excursions == excursions_of(df_history)
    IN  (opt.pc = "returned" /\ ~opt.in.raises /\ excursions # <<>>) =>
            /\ opt.result.target_profit = Clamp(percentile75(excursions), Pct(5), Pct(20))
            /\ opt.result.stop_loss = Pct(-5)
            /\ (\A i \in 1..Len(df_history) : df_history[i].lowest.kind = "value") =>
                    opt.result.add_buy_point =
                        Clamp(SumSeq([i \in 1..Len(df_history) |-> df_history[i].lowest.v])
                                \div Len(df_history), Pct(-5), Pct(-2))

\* C17: calculate_optimal_exit_points returns the default policy whenever
\* there is no crash history, no maximum excursion was computed for any
\* event, or a retrieval step failed.
C17_DefaultOnAnyFailure ==
    LET df_history == _get_crash_history(opt.in) IN
    (/\ opt.pc = "returned"
     /\ \/ df_history = <<>>
        \/ excursions_of(df_history) = <<>>
        \/ opt.in.raises
        \/ \E i \in 1..Len(df_history) :
                ~df_history[i].max_return.ok \/ df_history[i].lowest.kind = "raise")
        => opt.result = default_exit_points

C19_TiesByWinRate ==
    \A k \in 1..Len(calib.outputs) :
        LET ranked == calib.outputs[k].df_results
            best == calib.outputs[k].best
        IN  /\ \A i \in 1..(Len(ranked) - 1) :
                    ranked[i].total_return >= ranked[i + 1].total_return
            /\ \A i \in 1..Len(ranked) :
                    ranked[i].total_return = best.total_return =>
                        ranked[i].wins * best.trades <= best.wins * ranked[i].trades

\* C20: no crash row with volume below min_volume or ai_probability below
\* the threshold is replayed by a grid search.
C20_OnlyLiquidLikelyRowsSimulated ==
    \A i \in 1..Len(calib.simulated) :
        /\ calib.simulated[i].volume >= min_volume
        /\ calib.simulated[i].ai_probability >= ai_threshold

\* C21: in compare_averaging_strategies both strategies trade the same rows
\* (equal trade counts) and exit at the same take-profit and stop-loss
\* thresholds; a row on which the averaging buy is not used is left in the
\* same period with the same result, on half the capital.
C21_StrategiesTradeTheSameRows ==
    cmp.pc \in {"averaged", "raised"} =>
        /\ Len(cmp.s1_trades) = Len(cmp.s2_trades)
        /\ \A i \in 1..Len(cmp.s1_trades) :
            LET a == cmp.s1_trades[i]
                b == cmp.s2_trades[i]
                thresholds == { HalfPct(cmp.best_tp), -HalfPct(cmp.best_sl) }
            IN  /\ a.row = b.row
                /\ a.period < Len(a.row.daily_returns) => a.profit \in { a.size * x : x \in thresholds }
                /\ b.period < Len(b.row.daily_returns) => b.profit \in { b.size * x : x \in thresholds }
                /\ ~b.avg_used =>
                    /\ a.period = b.period
                    /\ a.win = b.win
                    /\ a.profit = 2 * b.profit

\* Both strategies traded a row with the averaging buy and left one row out
C21_Witness ==
    /\ cmp.pc = "averaged"
    /\ \E i \in 1..Len(cmp.s2_trades) : cmp.s2_trades[i].avg_used
    /\ Len(cmp.s1_trades) < Len(cmp.df_crash)


\* The trade the grid-search replay appends for the row of a booked trade
GridTrade(t) == ReplayTrade(t.row.daily_returns, cmp.best_tp, cmp.best_sl)

SameAsGrid(t) ==
    /\ t.profit = t.size * HalfPct(GridTrade(t).return)
    /\ t.win = GridTrade(t).success
    /\ t.period = GridTrade(t).days

\* C28: every trade booked by strategy 1 of compare_averaging_strategies and
\* by compare_capital_strategies is the trade of the grid-search replay: its
\* profit is the position size times the replay's exit return, with the same
\* exit period and the same win or loss.
C28_InlineReplayIsGridReplay ==
    /\ cmp.pc \in {"capital", "averaged", "raised"} =>
        \A k \in 1..Len(cmp.capital_trades) :
            \A i \in 1..Len(cmp.capital_trades[k]) : SameAsGrid(cmp.capital_trades[k][i])
    /\ cmp.pc \in {"averaged", "raised"} =>
        \A i \in 1..Len(cmp.s1_trades) : SameAsGrid(cmp.s1_trades[i])

\* Strategy 1 left a row at a threshold before its last rebound, and every
\* capital booked a trade
C28_Witness ==
    /\ cmp.pc = "averaged"
    /\ \E i \in 1..Len(cmp.s1_trades) :
        /\ cmp.s1_trades[i].period < Len(cmp.s1_trades[i].row.daily_returns)
        /\ cmp.s1_trades[i].win
    /\ \A k \in 1..Len(cmp.capital_trades) : cmp.capital_trades[k] # <<>>

\* C22: a row without forward returns is neither replayed into a trade nor
\* passed over in silence: once the loop has left the row, the replay has
\* raised for it.
C22_EmptyRowIsSignalled ==
    (replay.pc \notin {"idle", "row"} /\ replay.daily_returns = <<>>) =>
        /\ replay.trades = <<>>
        /\ replay.pc = "raised"

\* C30: run_backtest called twice on one instance with the same data, events
\* and rules returns the same result both times: total_trades, win_trades
\* (so win_rate), final_capital and the trade list.
C30_SecondRunRepeatsFirst ==
    (bt.pc = "instance" /\ Len(bt.results) >= 2) =>
        bt.results[2] = bt.results[1]

\* C26: after a merge the training dataset holds at most one crash event of
\* an instrument per day, however many scans of the day saved it.
C26_OneEventPerInstrumentAndDay ==
    data.pc = "running" =>
        \A i, j \in 1..Len(data.main) :
            (/\ data.main[i].stock_code = data.main[j].stock_code
             /\ data.main[i].Date[1] = data.main[j].Date[1]) => i = j

\* C25: a notification that fails during a buy, an averaging buy or a sell
\* raises nothing into scan_and_trade or manage_positions: no pass ends with
\* an exception on its way out.
C25_NotificationFailureIsContained == \A e \in events : e.kind # "raised"

\* C23: across a restart of the engine process the trade-history log and the
\* open positions keep their values.
C23_LedgerSurvivesRestart ==
    [][sched'.boots # sched.boots =>
            (positions' = positions /\ order_history' = order_history)]_vars

CountOf(q, job) == Cardinality({ i \in 1..Len(q) : q[i] = job })

\* C24: at most one pass is in flight at any time, and a pass whose interval
\* fires again while one is in flight is not queued: the loop never owes more
\* than one run of a job.
C24_PassesNeverOverlapNorQueue ==
    sched.pc # "idle" =>
        /\ Cardinality(sched.running) <= 1
        /\ \A k \in 1..Len(Jobs) : CountOf(sched.queue, Jobs[k]) <= 1

\* An evaluation pass over an open position is in flight for more than two of
\* its intervals
C24_Witness ==
    /\ sched.pc = "pending"
    /\ sched.running = {"manage"}
    /\ ~sched.returned_early
    /\ positions # <<>>
    /\ sched.clock - sched.started >= 2 * every(sched.driver, "manage")

\* Weekdays from 09:00:00 to 15:30:00
InWindow(clock) ==
    /\ (clock \div DaySeconds) % 7 \in 0..4
    /\ clock % DaySeconds \in TimeOfDay(9, 0, 0)..TimeOfDay(15, 30, 0)

\* C27: under LiveScheduler a position is opened, averaged or closed only by a
\* job that fires on a weekday between 09:00 and 15:30; a job that fires
\* outside the window leaves the positions and the trade log as they are.
C27_TradesOnlyInTradingTime ==
    [][(/\ sched.driver = "scheduler"
        /\ sched'.boots = sched.boots
        /\ <<positions, order_history>>' # <<positions, order_history>>)
            => InWindow(sched.clock)]_vars

\* A job of the scheduler has fired outside the window, with a position open
C27_Witness ==
    /\ sched.pc = "pending"
    /\ sched.driver = "scheduler"
    /\ sched.running # {}
    /\ sched.returned_early
    /\ ~InWindow(sched.clock)
    /\ positions # <<>>

\* The pass that ends in the primed state got a price for the stock
PricedPass(code) == Event("priced", code) \in events'

\* C29: every open position is eventually sold and recorded in order_history.
\* A pass with a price for a position held for the holding days sells it,
\* unless that pass makes its one additional buy; a pass without a price
\* leaves the position as it is.
C29_EveryPositionIsClosed ==
    /\ \A code \in Stocks :
        (code \in Codes(positions)) ~>
            (/\ code \notin Codes(positions)
             /\ \E i \in 1..Len(order_history) : order_history[i].stock_code = code)
    /\ [][\A i \in 1..Len(positions) :
            LET p == positions[i] IN
            (PricedPass(p.stock_code) /\ holding_days(p, now) >= max_holding_days) =>
                \/ /\ p.stock_code \notin Codes(positions')
                   /\ Len(order_history') = Len(order_history) + 1
                \/ /\ ~p.second_buy_done
                   /\ p.stock_code \in Codes(positions')
                   /\ PosOf(positions', p.stock_code).second_buy_done]_vars
    /\ [][\A i \in 1..Len(positions) :
            Event("no_price", positions[i].stock_code) \in events' =>
                /\ Len(positions') = Len(positions)
                /\ positions'[i] = positions[i]]_vars

\* A position that was averaged after its holding days has been sold on the
\* time stop
C29_Witness ==
    /\ positions = <<>>
    /\ \E i \in 1..Len(order_history) :
        /\ order_history[i].reason = "time_stop"
        /\ order_history[i].quantity > first_buy_quantity(17000)

====
